---- MODULE Spec2Model ----
(***************************************************************************)
(* Globalize (src/app.py): a single-page Streamlit script.  Every run of   *)
(* the script reads the widgets, and the handler of the pressed button     *)
(* calls the language detector, the translator, the speech synthesizer and *)
(* the word-cloud builder.  Text is modelled as a sequence of one-character*)
(* strings, so that strip, split, join, lower and title are computed the   *)
(* way Python computes them.  What the external libraries answer (a code,  *)
(* a text, an exception) is chosen nondeterministically.                   *)
(***************************************************************************)
EXTENDS Integers, Sequences, FiniteSets, TLC

VARIABLES
    paragraph,         \* st.text_area "Enter one paragraph:"           (l.138)
    select_all,        \* st.checkbox "Select all languages"            (l.202)
    default_selection, \* script variable default_selection             (l.203)
    target_languages,  \* st.multiselect value                          (l.205)
    word_to_spell,     \* st.text_input "Word to spell"                 (l.241)
    spell_lang,        \* st.selectbox "Spelling voice language"        (l.243)
    button,            \* the button whose handler ran in the last script run
    calls,             \* the library calls that handler made, in order
    shown,             \* the elements that handler rendered, in order
    escaped,           \* whether an exception left the handler uncaught
    helper             \* the last direct call of a helper function

vars == << paragraph, select_all, default_selection, target_languages,
           word_to_spell, spell_lang, button, calls, shown, escaped, helper >>

page == << paragraph, select_all, default_selection, target_languages,
           word_to_spell, spell_lang, button, calls, shown, escaped >>

----------------------------------------------------------------------------
(* Bounds of the model.                                                    *)

MaxCodeLen == 3

MaxTextLen == 3

MaxWordLen == 3

MaxParagraphLen == 2

MaxPageWordLen == 1

MaxReadAloudParagraphLen == 1

----------------------------------------------------------------------------
(* Python values and str methods.                                          *)

\* Python's None, where a str is expected.
None == << "None" >>

\* bool(v) of a str or None: `if code`, `if not w`, `if translated_text`.
Truthy(v) == v # None /\ v # << >>

LowerChars ==
    << "a", "b", "c", "d", "e", "f", "g", "h", "i", "j", "k", "l", "m",
       "n", "o", "p", "q", "r", "s", "t", "u", "v", "w", "x", "y", "z" >>

UpperChars ==
    << "A", "B", "C", "D", "E", "F", "G", "H", "I", "J", "K", "L", "M",
       "N", "O", "P", "Q", "R", "S", "T", "U", "V", "W", "X", "Y", "Z" >>

IsLowerChar(c) == \E i \in 1..26 : LowerChars[i] = c

IsUpperChar(c) == \E i \in 1..26 : UpperChars[i] = c

IsCased(c) == IsLowerChar(c) \/ IsUpperChar(c)

IsSpace(c) == c = " "

ToLower(c) ==
    IF IsUpperChar(c)
    THEN LowerChars[CHOOSE i \in 1..26 : UpperChars[i] = c]
    ELSE c

ToUpper(c) ==
    IF IsLowerChar(c)
    THEN UpperChars[CHOOSE i \in 1..26 : LowerChars[i] = c]
    ELSE c

\* str.lower()
lower(s) == [i \in 1..Len(s) |-> ToLower(s[i])]

\* str.title(): a cased character is upper-cased when the character before it
\* is uncased (or it is the first), lower-cased otherwise.
title(s) ==
    [i \in 1..Len(s) |->
        IF ~IsCased(s[i]) THEN s[i]
        ELSE IF i > 1 /\ IsCased(s[i - 1]) THEN ToLower(s[i])
        ELSE ToUpper(s[i])]

RECURSIVE lstrip(_)
lstrip(s) ==
    IF s # << >> /\ IsSpace(Head(s)) THEN lstrip(Tail(s)) ELSE s

RECURSIVE rstrip(_)
rstrip(s) ==
    IF s # << >> /\ IsSpace(s[Len(s)])
    THEN rstrip(SubSeq(s, 1, Len(s) - 1))
    ELSE s

\* str.strip()
strip(s) == rstrip(lstrip(s))

\* sep.join(parts)
RECURSIVE join(_, _)
join(sep, parts) ==
    IF parts = << >> THEN << >>
    ELSE IF Len(parts) = 1 THEN Head(parts)
    ELSE Head(parts) \o sep \o join(sep, Tail(parts))

\* list(word): the characters of the word, each a str
list(word) == [i \in 1..Len(word) |-> << word[i] >>]

\* s.split("-")[0]: what precedes the first hyphen
RECURSIVE SplitFirst(_)
SplitFirst(s) ==
    IF s = << >> \/ Head(s) = "-" THEN << >>
    ELSE << Head(s) >> \o SplitFirst(Tail(s))

\* "-" in code
HasHyphen(s) == \E i \in 1..Len(s) : s[i] = "-"

\* every sequence over S of length at most n
SeqsUpTo(S, n) == UNION { [1..k -> S] : k \in 0..n }

----------------------------------------------------------------------------
(* The language catalogs.                                                  *)

en == << "e", "n" >>

iw == << "i", "w" >>

he == << "h", "e" >>

id == << "i", "d" >>

in == << "i", "n" >>

zh_cn == << "z", "h", "-", "c", "n" >>

English == << "E", "n", "g", "l", "i", "s", "h" >>

Hebrew == << "H", "e", "b", "r", "e", "w" >>

Indonesian == << "I", "n", "d", "o", "n", "e", "s", "i", "a", "n" >>

ChineseSimplified ==
    << "C", "h", "i", "n", "e", "s", "e", " ",
       "(", "S", "i", "m", "p", "l", "i", "f", "i", "e", "d", ")" >>

\* googletrans.LANGUAGES, an insertion-ordered dict code -> lower-case name;
\* these are four of its entries, in its order ("iw" and "he" both name Hebrew).
LANGUAGES ==
    << << en, lower(English) >>,
       << iw, lower(Hebrew) >>,
       << he, lower(Hebrew) >>,
       << zh_cn, lower(ChineseSimplified) >> >>

\* LANGUAGES.get(code, default)
LANGUAGES_get(code, default) ==
    IF \E i \in 1..Len(LANGUAGES) : LANGUAGES[i][1] = code
    THEN LANGUAGES[CHOOSE i \in 1..Len(LANGUAGES) : LANGUAGES[i][1] = code][2]
    ELSE default

\* pycountry.languages: the ISO 639 entries that have an alpha_2 code, among
\* them none for the withdrawn codes "iw" and "in".
PycountryLanguages ==
    << << en, English >>, << he, Hebrew >>, << id, Indonesian >> >>

\* pycountry.languages.get(alpha_2=code): the entry's name, or None
pycountry_get(code) ==
    IF \E i \in 1..Len(PycountryLanguages) : PycountryLanguages[i][1] = lower(code)
    THEN PycountryLanguages[
             CHOOSE i \in 1..Len(PycountryLanguages) :
                 PycountryLanguages[i][1] = lower(code)][2]
    ELSE None

----------------------------------------------------------------------------
(* Helpers of app.py.                                                      *)

\* get_language_name with no fallback to the code: LANGUAGES.get(code, "").
GetLanguageNameNoEcho(code, lookup_raises) ==
    LET name == IF Truthy(code) /\ Len(code) = 2 /\ ~lookup_raises
                THEN pycountry_get(code)
                ELSE None
    IN  IF Truthy(name) THEN [exc |-> "none", ret |-> name]
        ELSE [exc |-> "none", ret |-> title(LANGUAGES_get(code, << >>))]

\* get_language_name(code); lookup_raises: pycountry's lookup raises.
get_language_name(code, lookup_raises) ==
    LET name == IF Truthy(code) /\ Len(code) = 2 /\ ~lookup_raises
                THEN pycountry_get(code)
                ELSE None
        fallback == LANGUAGES_get(code, code)
    IN  IF Truthy(name) THEN [exc |-> "none", ret |-> name]
        ELSE IF fallback = None THEN [exc |-> "AttributeError", ret |-> << >>]
        ELSE [exc |-> "none", ret |-> title(fallback)]

\* normalize_gtts_code with the legacy codes looked up before the region is
\* stripped.
NormalizeRemapBeforeStrip(code) ==
    IF ~Truthy(code) THEN en
    ELSE IF code = iw THEN he
    ELSE IF code = in THEN id
    ELSE IF HasHyphen(code) THEN SplitFirst(code) ELSE code

\* normalize_gtts_code without the remapping of "in".
NormalizeWithoutIndonesian(code) ==
    IF ~Truthy(code) THEN en
    ELSE LET gtts_code == IF HasHyphen(code) THEN SplitFirst(code) ELSE code
         IN  IF gtts_code = iw THEN he ELSE gtts_code

\* normalize_gtts_code(code)
normalize_gtts_code(code) ==
    IF ~Truthy(code) THEN en
    ELSE LET gtts_code == IF HasHyphen(code) THEN SplitFirst(code) ELSE code
         IN  IF gtts_code = iw THEN he
             ELSE IF gtts_code = in THEN id
             ELSE gtts_code

\* word_tokenize(text): the words (maximal runs of letters) and the punctuation
\* marks of the text, each mark a token of its own; whitespace separates.
RECURSIVE Tokens(_, _)
Tokens(s, word) ==
    LET flush == IF word = << >> THEN << >> ELSE << word >>
    IN  IF s = << >> THEN flush
        ELSE IF IsCased(Head(s)) THEN Tokens(Tail(s), Append(word, Head(s)))
        ELSE IF IsSpace(Head(s)) THEN flush \o Tokens(Tail(s), << >>)
        ELSE flush \o << << Head(s) >> >> \o Tokens(Tail(s), << >>)

word_tokenize(text) == Tokens(text, << >>)

\* str.isalpha()
isalpha(w) == w # << >> /\ \A i \in 1..Len(w) : IsCased(w[i])

\* stopwords.words("english"), as far as it holds words over the letters of
\* TextChars: of those only "a" is an English stopword.
EnglishStopwords == { << "a" >> }

\* [w for w in tokens if w.isalpha() and w not in stop_words]
RECURSIVE Filtered(_, _)
Filtered(tokens, stop_words) ==
    IF tokens = << >> THEN << >>
    ELSE (IF isalpha(Head(tokens)) /\ Head(tokens) \notin stop_words
          THEN << Head(tokens) >> ELSE << >>)
         \o Filtered(Tail(tokens), stop_words)

\* generate_wordcloud_figure tokenizing the text as typed, not lower-cased.
GenerateWithoutLower(text, punkt_ok, stopwords_ok, render_ok) ==
    IF ~punkt_ok THEN [exc |-> "LookupError", ret |-> << >>]
    ELSE
    LET stop_words == IF stopwords_ok THEN EnglishStopwords ELSE { }
        filtered == Filtered(word_tokenize(text), stop_words)
    IN  IF filtered = << >> THEN [exc |-> "ValueError", ret |-> << >>]
        ELSE IF ~render_ok THEN [exc |-> "Exception", ret |-> << >>]
        ELSE [exc |-> "none", ret |-> join(<< " " >>, filtered)]

\* generate_wordcloud_figure(text).  punkt_ok: the tokenizer's resource is
\* there; stopwords_ok: the stopword corpus is there; render_ok: WordCloud
\* lays the words out without raising.  ret is the text the figure is built of.
generate_wordcloud_figure(text, punkt_ok, stopwords_ok, render_ok) ==
    IF ~punkt_ok THEN [exc |-> "LookupError", ret |-> << >>]
    ELSE
    LET tokens == word_tokenize(lower(text))
        stop_words == IF stopwords_ok THEN EnglishStopwords ELSE { }
        filtered == Filtered(tokens, stop_words)
        wc_text == join(<< " " >>, filtered)
    IN  IF filtered = << >> THEN [exc |-> "ValueError", ret |-> << >>]
        ELSE IF ~render_ok THEN [exc |-> "Exception", ret |-> << >>]
        ELSE [exc |-> "none", ret |-> wc_text]

\* One call of a library, as the handlers record it.
Call(fn, text, lang, slow, exc, ret) ==
    [fn |-> fn, text |-> text, lang |-> lang, slow |-> slow,
     exc |-> exc, ret |-> ret]

\* One element rendered on the page.
Show(kind, msg, text) == [kind |-> kind, msg |-> msg, text |-> text]

\* spell_text_audio_bytes speaking the letters joined by spaces.
SpellSpaced(word, lang, tts_ok) ==
    LET exc == IF tts_ok THEN "none" ELSE "Exception"
    IN  [exc |-> exc,
         calls |-> << Call("gTTS", join(<< " " >>, list(word)),
                           normalize_gtts_code(lang), TRUE, exc, << >>) >>]

\* spell_text_audio_bytes(word, lang); tts_ok: gTTS synthesizes without raising.
spell_text_audio_bytes(word, lang, tts_ok) ==
    LET spaced == join(<< " " >>, list(word))
        dotted == join(<< ",", " " >>, list(word))
        to_speak == dotted
        gtts_lang == normalize_gtts_code(lang)
        exc == IF tts_ok THEN "none" ELSE "Exception"
    IN  [exc |-> exc,
         calls |-> << Call("gTTS", to_speak, gtts_lang, TRUE, exc, << >>) >>]

\* read_aloud_streamlit(text, lang)
read_aloud_streamlit(text, lang, tts_ok) ==
    LET exc == IF tts_ok THEN "none" ELSE "Exception"
    IN  [exc |-> "none",
         calls |-> << Call("gTTS", text, lang, FALSE, exc, << >>) >>,
         shown |-> IF tts_ok
                   THEN << Show("audio", "audio/mp3", text) >>
                   ELSE << Show("warning", "Audio generation failed", lang) >>]

----------------------------------------------------------------------------
(* The language widgets' data (l.198-199).                                 *)

\* The characters in code-point order.
CodePoints ==
    << " ", "!", "(", ")", ",", "-" >> \o UpperChars \o LowerChars

ord(c) == CHOOSE i \in 1..Len(CodePoints) : CodePoints[i] = c

\* a < b on str
RECURSIVE StrLess(_, _)
StrLess(a, b) ==
    IF b = << >> THEN FALSE
    ELSE IF a = << >> THEN TRUE
    ELSE IF Head(a) = Head(b) THEN StrLess(Tail(a), Tail(b))
    ELSE ord(Head(a)) < ord(Head(b))

\* sorted(S)
RECURSIVE sorted(_)
sorted(S) ==
    IF S = { } THEN << >>
    ELSE LET least == CHOOSE x \in S : \A y \in S \ { x } : StrLess(x, y)
         IN  << least >> \o sorted(S \ { least })

\* The keys of display_map
display_map_keys == { title(LANGUAGES[i][2]) : i \in 1..Len(LANGUAGES) }

\* display_map = {name.title(): code for code, name in LANGUAGES.items()}: of
\* the codes with one name, the last one wins
display_map ==
    [name \in display_map_keys |->
        LET at == { i \in 1..Len(LANGUAGES) : title(LANGUAGES[i][2]) = name }
        IN  LANGUAGES[CHOOSE i \in at : \A j \in at : j <= i][1]]

\* display_map.get(name)
display_map_get(name) ==
    IF name \in DOMAIN display_map THEN display_map[name] ELSE None

all_languages == sorted(display_map_keys)

\* default_selection with the branches exchanged.
DefaultSelectionInverted(sel) == IF sel THEN << English >> ELSE all_languages

\* default_selection = all_languages if select_all else ["English"]
DefaultSelection(sel) == IF sel THEN all_languages ELSE << English >>

\* What a user can pick in the multiselect: catalog names, none twice.
Selections ==
    { s \in SeqsUpTo(display_map_keys, Len(all_languages)) :
        \A i, j \in 1..Len(s) : i # j => s[i] # s[j] }

----------------------------------------------------------------------------
(* What the libraries can answer.                                          *)

\* Codes langdetect.detect may return.
DetectedCodes == { en, he, zh_cn }

\* detect(text): a code, LangDetectException, or another exception
DetectOutcomes ==
    { [exc |-> "LangDetectException", code |-> None],
      [exc |-> "Exception", code |-> None] }
    \cup { [exc |-> "none", code |-> c] : c \in DetectedCodes }

\* Texts the translator may answer with, the empty text among them.
TranslatedTexts == { << >>, << "b" >> }

\* translator.translate(text, dest=code).text: a text, or an exception
TranslateOutcomes ==
    { [exc |-> "Exception", text |-> None] }
    \cup { [exc |-> "none", text |-> t] : t \in TranslatedTexts }

\* Per target language: the translator's answer and whether gTTS synthesizes.
LanguageOutcomes == [t : TranslateOutcomes, tts_ok : BOOLEAN]

----------------------------------------------------------------------------
(* The button handlers.  Each yields the calls it made, the elements it    *)
(* rendered and whether an exception escaped it.                           *)

Result(c, s, e) == [calls |-> c, shown |-> s, escaped |-> e]

InfoParagraphFirst ==
    Result(<< >>, << Show("info", "Type or paste a paragraph first.", << >>) >>,
           FALSE)

\* `except Exception`: catches every exception the libraries raise
CaughtByException(exc) == exc # "none"

\* The detect handler guarding with `if paragraph:`, without strip().
DetectHandlerUnstripped(p, d, lookup_raises) ==
    IF Truthy(p)
    THEN LET c == << Call("detect", p, << >>, FALSE, d.exc, d.code) >>
             n == get_language_name(d.code, lookup_raises)
         IN  IF d.exc = "none" /\ n.exc = "none"
             THEN Result(c, << Show("success", "Detected",
                                    n.ret \o << " ", "(" >> \o d.code \o << ")" >>) >>,
                         FALSE)
             ELSE IF d.exc = "LangDetectException"
             THEN Result(c, << Show("error",
                     "Language detection failed (text too short or ambiguous).",
                     << >>) >>, FALSE)
             ELSE Result(c, << Show("error", "Language detection error", << >>) >>,
                         ~CaughtByException(IF d.exc = "none" THEN n.exc ELSE d.exc))
    ELSE InfoParagraphFirst

\* if st.button("Detect language")  (l.140-150)
DetectHandler(p, d, lookup_raises) ==
    IF Truthy(strip(p))
    THEN LET c == << Call("detect", p, << >>, FALSE, d.exc, d.code) >>
             n == get_language_name(d.code, lookup_raises)
         IN  IF d.exc = "none" /\ n.exc = "none"
             THEN Result(c, << Show("success", "Detected",
                                    n.ret \o << " ", "(" >> \o d.code \o << ")" >>) >>,
                         FALSE)
             ELSE IF d.exc = "LangDetectException"
             THEN Result(c, << Show("error",
                     "Language detection failed (text too short or ambiguous).",
                     << >>) >>, FALSE)
             ELSE Result(c, << Show("error", "Language detection error", << >>) >>,
                         ~CaughtByException(IF d.exc = "none" THEN n.exc ELSE d.exc))
    ELSE InfoParagraphFirst

\* The translate handler testing only `detected != "en"`.
TranslateToEnglishUndetected(p, d, t) ==
    IF Truthy(strip(p))
    THEN LET c1 == << Call("detect", p, << >>, FALSE, d.exc, d.code) >>
             c2 == << Call("translate", p, en, FALSE, t.exc, t.text) >>
         IN  IF d.code # en
             THEN IF t.exc = "none"
                  THEN Result(c1 \o c2,
                              << Show("subheader", "Translated to English:", << >>),
                                 Show("write", "", t.text) >>, FALSE)
                  ELSE Result(c1 \o c2,
                              << Show("error", "Translation failed", << >>) >>,
                              FALSE)
             ELSE Result(c1,
                         << Show("info", "Text appears to already be English.", << >>),
                            Show("write", "", p) >>, FALSE)
    ELSE InfoParagraphFirst

\* if st.button("Translate to English (if not already)")  (l.153-170)
TranslateToEnglishHandler(p, d, t) ==
    IF Truthy(strip(p))
    THEN LET detected == IF d.exc = "none" THEN d.code ELSE None
             c1 == << Call("detect", p, << >>, FALSE, d.exc, d.code) >>
             c2 == << Call("translate", p, en, FALSE, t.exc, t.text) >>
         IN  IF Truthy(detected) /\ detected # en
             THEN IF t.exc = "none"
                  THEN Result(c1 \o c2,
                              << Show("subheader", "Translated to English:", << >>),
                                 Show("write", "", t.text) >>, FALSE)
                  ELSE Result(c1 \o c2,
                              << Show("error", "Translation failed", << >>) >>,
                              ~CaughtByException(t.exc))
             ELSE Result(c1,
                         << Show("info", "Text appears to already be English.", << >>),
                            Show("write", "", p) >>, FALSE)
    ELSE InfoParagraphFirst

\* The word-cloud handler giving up when the translation fails.
WordCloudHandlerStrict(p, d, t, punkt_ok, stopwords_ok, render_ok) ==
    IF Truthy(strip(p))
    THEN LET translating == d.exc = "none" /\ d.code # en
             c1 == << Call("detect", p, << >>, FALSE, d.exc, d.code) >>
             c2 == IF translating
                   THEN << Call("translate", p, en, FALSE, t.exc, t.text) >>
                   ELSE << >>
             text_for_cloud == IF translating THEN t.text ELSE p
             fig == generate_wordcloud_figure(text_for_cloud, punkt_ok,
                                              stopwords_ok, render_ok)
             c3 == << Call("generate_wordcloud_figure", text_for_cloud, << >>,
                           FALSE, fig.exc, fig.ret) >>
         IN  IF translating /\ t.exc # "none"
             THEN Result(c1 \o c2,
                         << Show("error", "Translation failed", << >>) >>, FALSE)
             ELSE IF fig.exc = "none"
             THEN Result(c1 \o c2 \o c3, << Show("pyplot", "", fig.ret) >>, FALSE)
             ELSE Result(c1 \o c2 \o c3,
                         << Show("error", "Could not generate word cloud", << >>) >>,
                         FALSE)
    ELSE InfoParagraphFirst

\* if st.button("Generate Word Cloud")  (l.172-192)
WordCloudHandler(p, d, t, punkt_ok, stopwords_ok, render_ok) ==
    IF Truthy(strip(p))
    THEN LET detected == IF d.exc = "none" THEN d.code ELSE None
             translating == Truthy(detected) /\ detected # en
             c1 == << Call("detect", p, << >>, FALSE, d.exc, d.code) >>
             c2 == IF translating
                   THEN << Call("translate", p, en, FALSE, t.exc, t.text) >>
                   ELSE << >>
             text_for_cloud == IF translating /\ t.exc = "none" THEN t.text ELSE p
             fig == generate_wordcloud_figure(text_for_cloud, punkt_ok,
                                              stopwords_ok, render_ok)
             c3 == << Call("generate_wordcloud_figure", text_for_cloud, << >>,
                           FALSE, fig.exc, fig.ret) >>
         IN  IF fig.exc = "none"
             THEN Result(c1 \o c2 \o c3, << Show("pyplot", "", fig.ret) >>, FALSE)
             ELSE Result(c1 \o c2 \o c3,
                         << Show("error", "Could not generate word cloud", << >>) >>,
                         ~CaughtByException(fig.exc))
    ELSE InfoParagraphFirst

\* The body of `for name in target_languages`  (l.216-235)
ReadAloudBody(p, name, o) ==
    LET code == display_map_get(name)
        translated_text == IF o.t.exc = "none" THEN o.t.text ELSE None
        c1 == << Call("translate", p, code, FALSE, o.t.exc, o.t.text) >>
        s1 == IF o.t.exc = "none" THEN << >>
              ELSE << Show("error", "Translation failed", name) >>
        gtts_code == normalize_gtts_code(code)
        audio == read_aloud_streamlit(translated_text, gtts_code, o.tts_ok)
    IN  IF ~Truthy(code)
        THEN Result(<< >>, << Show("warning", "Unknown language selection", name) >>,
                    FALSE)
        ELSE IF Truthy(translated_text)
        THEN Result(c1 \o audio.calls,
                    s1 \o << Show("markdown", "", name \o << " ", "(" >> \o code \o << ")" >>),
                             Show("write", "", translated_text) >>
                       \o audio.shown,
                    FALSE)
        ELSE Result(c1, s1, FALSE)

\* The loop left at the first language that fails to translate.
ThenBreakOnError(first, rest) ==
    IF \E i \in 1..Len(first.shown) : first.shown[i].kind = "error"
    THEN first
    ELSE Result(first.calls \o rest.calls, first.shown \o rest.shown, rest.escaped)

\* One pass of the loop body, then the passes after it: an exception that
\* left a pass would end the loop.
Then(first, rest) ==
    IF first.escaped THEN first
    ELSE Result(first.calls \o rest.calls, first.shown \o rest.shown, rest.escaped)

\* for name in target_languages: ...  (l.215); outs[i] is what the libraries
\* answer for the i-th language.
RECURSIVE ReadAloudLoop(_, _, _)
ReadAloudLoop(p, names, outs) ==
    IF names = << >> THEN Result(<< >>, << >>, FALSE)
    ELSE Then(ReadAloudBody(p, Head(names), Head(outs)),
              ReadAloudLoop(p, Tail(names), Tail(outs)))

\* if st.button("Translate & Read Aloud")  (l.211-235)
ReadAloudHandler(p, names, outs) ==
    IF ~Truthy(strip(p)) THEN InfoParagraphFirst
    ELSE ReadAloudLoop(p, names, outs)

\* if st.button("Spell Word Aloud")  (l.245-257)
SpellHandler(word, lang_name, tts_ok) ==
    LET w == strip(word)
        code == display_map_get(lang_name)
        gtts_code == normalize_gtts_code(code)
        audio_fp == spell_text_audio_bytes(w, gtts_code, tts_ok)
    IN  IF ~Truthy(w)
        THEN Result(<< >>, << Show("info", "Type a word to spell aloud.", << >>) >>,
                    FALSE)
        ELSE IF audio_fp.exc = "none"
        THEN Result(audio_fp.calls,
                    << Show("markdown", "Spelling", w),
                       Show("audio", "audio/mp3", audio_fp.calls[1].text) >>,
                    FALSE)
        ELSE Result(audio_fp.calls,
                    << Show("error", "Could not generate spelling audio", << >>) >>,
                    ~CaughtByException(audio_fp.exc))

----------------------------------------------------------------------------
(* What a user can enter.                                                  *)

ParagraphChars == { " ", "a", "b" }

WordChars == { " ", "c", "a", "t" }

CodeChars == { "e", "n", "i", "w", "-", "N" }

en_US == << "e", "n", "-", "U", "S" >>

iw_IL == << "i", "w", "-", "I", "L" >>

in_ID == << "i", "n", "-", "I", "D" >>

ExampleCodes == { en, iw, he, id, in, zh_cn, en_US, iw_IL, in_ID }

Codes == SeqsUpTo(CodeChars, MaxCodeLen) \cup ExampleCodes \cup { None }

TextChars == { " ", "a", "A", "b", "!" }

Texts == SeqsUpTo(TextChars, MaxTextLen)

----------------------------------------------------------------------------
(* The page: one action per widget edit and per button.                    *)

NoHelperCall ==
    [fn |-> "none", arg |-> << >>, env |-> << >>, done |-> TRUE,
     exc |-> "none", ret |-> << >>]

Init ==
    /\ paragraph = << >>
    /\ select_all = FALSE
    /\ default_selection = DefaultSelection(FALSE)
    /\ target_languages = DefaultSelection(FALSE)
    /\ word_to_spell = << >>
    /\ spell_lang = English
    /\ button = "none"
    /\ calls = << >>
    /\ shown = << >>
    /\ escaped = FALSE
    /\ helper = NoHelperCall

\* A script run with no button pressed renders no handler's output.
Rerun ==
    /\ button' = "none"
    /\ calls' = << >>
    /\ shown' = << >>
    /\ escaped' = FALSE
    /\ helper' = helper

\* A script run with button b pressed; r is what its handler did.
Run(b, r) ==
    /\ button' = b
    /\ calls' = r.calls
    /\ shown' = r.shown
    /\ escaped' = r.escaped
    /\ UNCHANGED << paragraph, select_all, default_selection, target_languages,
                    word_to_spell, spell_lang, helper >>

\* Typing into a text widget: one more character, or the last one deleted.
Typed(text, chars, maxlen) ==
    { Append(text, c) : c \in IF Len(text) < maxlen THEN chars ELSE { } }
    \cup IF text = << >> THEN { } ELSE { SubSeq(text, 1, Len(text) - 1) }

EditParagraph(chars, maxlen) ==
    /\ \E p \in Typed(paragraph, chars, maxlen) : paragraph' = p
    /\ Rerun
    /\ UNCHANGED << select_all, default_selection, target_languages,
                    word_to_spell, spell_lang >>

\* The multiselect has no key: with another default it is a new widget, whose
\* value is that default.
ToggleSelectAll ==
    /\ select_all' = ~select_all
    /\ default_selection' = DefaultSelection(select_all')
    /\ target_languages' = default_selection'
    /\ Rerun
    /\ UNCHANGED << paragraph, word_to_spell, spell_lang >>

\* The multiselect: one more language picked, or a picked one removed.
EditTargets ==
    /\ \E s \in Selections :
          /\ \/ \E n \in display_map_keys : s = Append(target_languages, n)
             \/ \E i \in 1..Len(target_languages) :
                   s = SubSeq(target_languages, 1, i - 1)
                       \o SubSeq(target_languages, i + 1, Len(target_languages))
          /\ target_languages' = s
    /\ Rerun
    /\ UNCHANGED << paragraph, select_all, default_selection,
                    word_to_spell, spell_lang >>

EditWord(chars, maxlen) ==
    /\ \E w \in Typed(word_to_spell, chars, maxlen) : word_to_spell' = w
    /\ Rerun
    /\ UNCHANGED << paragraph, select_all, default_selection, target_languages,
                    spell_lang >>

EditSpellLang ==
    /\ \E n \in display_map_keys : spell_lang' = n
    /\ Rerun
    /\ UNCHANGED << paragraph, select_all, default_selection, target_languages,
                    word_to_spell >>

PressDetect ==
    \E d \in DetectOutcomes, lookup_raises \in BOOLEAN :
        Run("Detect language", DetectHandler(paragraph, d, lookup_raises))

PressTranslateToEnglish ==
    \E d \in DetectOutcomes, t \in TranslateOutcomes :
        Run("Translate to English", TranslateToEnglishHandler(paragraph, d, t))

PressWordCloud ==
    \E d \in DetectOutcomes, t \in TranslateOutcomes,
       punkt_ok \in BOOLEAN, stopwords_ok \in BOOLEAN, render_ok \in BOOLEAN :
        Run("Generate Word Cloud",
            WordCloudHandler(paragraph, d, t, punkt_ok, stopwords_ok, render_ok))

PressReadAloud ==
    \E outs \in [1..Len(target_languages) -> LanguageOutcomes] :
        Run("Translate & Read Aloud",
            ReadAloudHandler(paragraph, target_languages, outs))

PressSpell ==
    \E tts_ok \in BOOLEAN :
        Run("Spell Word Aloud", SpellHandler(word_to_spell, spell_lang, tts_ok))

\* The five buttons, with the paragraph and the word typed by the user and the
\* language widgets at their defaults.
Next ==
    \/ EditParagraph(ParagraphChars, MaxParagraphLen)
    \/ EditWord(WordChars, MaxPageWordLen)
    \/ PressDetect
    \/ PressTranslateToEnglish
    \/ PressWordCloud
    \/ PressReadAloud
    \/ PressSpell

Spec == Init /\ [][Next]_vars

----------------------------------------------------------------------------
(* The read-aloud panel, with the languages selected by the user.          *)

NextReadAloud ==
    \/ EditParagraph({ " ", "b" }, MaxReadAloudParagraphLen)
    \/ ToggleSelectAll
    \/ EditTargets
    \/ PressReadAloud

SpecReadAloud == Init /\ [][NextReadAloud]_vars

----------------------------------------------------------------------------
(* The spelling panel, over every word of the bound.                       *)

NextSpell ==
    \/ EditWord(WordChars, MaxWordLen)
    \/ EditSpellLang
    \/ PressSpell

SpecSpell == Init /\ [][NextSpell]_vars

----------------------------------------------------------------------------
(* The helper functions, each called on every input of the bounds.         *)

Pending(fn, arg, env) ==
    [fn |-> fn, arg |-> arg, env |-> env, done |-> FALSE,
     exc |-> "none", ret |-> << >>]

InitHelpers ==
    /\ paragraph = << >>
    /\ select_all = FALSE
    /\ default_selection = DefaultSelection(FALSE)
    /\ target_languages = DefaultSelection(FALSE)
    /\ word_to_spell = << >>
    /\ spell_lang = English
    /\ button = "none"
    /\ calls = << >>
    /\ shown = << >>
    /\ escaped = FALSE
    /\ helper \in
          { Pending("normalize_gtts_code", c, << >>) : c \in Codes }
          \cup { Pending("get_language_name", c, << r >>) :
                    c \in Codes, r \in BOOLEAN }
          \cup { Pending("generate_wordcloud_figure", t, e) :
                    t \in Texts, e \in [1..3 -> BOOLEAN] }

Return(r) ==
    /\ helper' = [helper EXCEPT !.done = TRUE, !.exc = r.exc, !.ret = r.ret]
    /\ UNCHANGED page

CallNormalize ==
    /\ helper.fn = "normalize_gtts_code" /\ ~helper.done
    /\ Return([exc |-> "none", ret |-> normalize_gtts_code(helper.arg)])

CallGetLanguageName ==
    /\ helper.fn = "get_language_name" /\ ~helper.done
    /\ Return(get_language_name(helper.arg, helper.env[1]))

CallWordCloud ==
    /\ helper.fn = "generate_wordcloud_figure" /\ ~helper.done
    /\ Return(generate_wordcloud_figure(helper.arg, helper.env[1],
                                        helper.env[2], helper.env[3]))

NextHelpers ==
    \/ CallNormalize
    \/ CallGetLanguageName
    \/ CallWordCloud

SpecHelpers == InitHelpers /\ [][NextHelpers]_vars

----------------------------------------------------------------------------
(* Properties of the helper functions (checked under SpecHelpers).         *)

Returned(fn) == helper.fn = fn /\ helper.done

\* A language code is missing, empty, or begins with its language subtag:
\* no code begins with the hyphen that separates the region.
IsLanguageCode(c) == c = None \/ c = << >> \/ c[1] # "-"

\* C2: normalize_gtts_code is idempotent: for every language code c, the
\* normalized code is normalized to itself.
C2_NormalizeIdempotent ==
    (Returned("normalize_gtts_code") /\ IsLanguageCode(helper.arg))
        => normalize_gtts_code(helper.ret) = helper.ret

\* C2 witness: a legacy code with a region suffix has been normalized.
C2_Witness ==
    Returned("normalize_gtts_code") /\ helper.arg = iw_IL /\ helper.ret = he

\* The part of a code before its first hyphen (the whole code if it has none).
BeforeHyphen(c) ==
    LET stops == { k \in 1..Len(c) : c[k] = "-" } \cup { Len(c) + 1 }
        first == CHOOSE k \in stops : \A j \in stops : k <= j
    IN  SubSeq(c, 1, first - 1)

\* C3: normalize_gtts_code yields "en" for an empty or missing code; otherwise
\* it strips what follows the first hyphen, then maps "iw" to "he" and "in" to
\* "id", and passes every other code through unchanged.
C3_NormalizeRules ==
    Returned("normalize_gtts_code") =>
        /\ ~Truthy(helper.arg) => helper.ret = en
        /\ Truthy(helper.arg) =>
              /\ BeforeHyphen(helper.arg) = iw => helper.ret = he
              /\ BeforeHyphen(helper.arg) = in => helper.ret = id
              /\ BeforeHyphen(helper.arg) \notin { iw, in }
                    => helper.ret = BeforeHyphen(helper.arg)
        /\ helper.arg = en_US => helper.ret = en
        /\ helper.arg = iw => helper.ret = he
        /\ helper.arg = in => helper.ret = id

\* C3 witness: "in-ID" has been normalized to "id".
C3_Witness ==
    Returned("normalize_gtts_code") /\ helper.arg = in_ID /\ helper.ret = id

\* text[i..j] is a word of the text: a maximal run of letters.
IsWordAt(text, i, j) ==
    /\ i <= j
    /\ \A k \in i..j : IsCased(text[k])
    /\ i = 1 \/ ~IsCased(text[i - 1])
    /\ j = Len(text) \/ ~IsCased(text[j + 1])

\* Every token of the text is an English stopword or not alphabetic.
OnlyStopwordsAndMarks(text) ==
    \A i, j \in 1..Len(text) :
        IsWordAt(text, i, j) => lower(SubSeq(text, i, j)) \in EnglishStopwords

\* No token of the text is alphabetic.
NoWord(text) == \A i \in 1..Len(text) : ~IsCased(text[i])

InCatalog(table, code) == \E i \in 1..Len(table) : table[i][1] = code

NameIn(table, code) ==
    table[CHOOSE i \in 1..Len(table) : table[i][1] = code][2]

\* The name the standards catalog gives the call's code, if it is consulted.
CatalogHit ==
    /\ Len(helper.arg) = 2
    /\ ~helper.env[1]
    /\ InCatalog(PycountryLanguages, lower(helper.arg))

\* C6 as stated: for a non-empty code get_language_name returns the catalog
\* name, else the title-cased backend name, else the code itself.
C6_AsStated ==
    (Returned("get_language_name") /\ Truthy(helper.arg)) =>
        /\ helper.exc = "none"
        /\ helper.ret # << >>
        /\ (~CatalogHit /\ ~InCatalog(LANGUAGES, helper.arg))
              => helper.ret = helper.arg

\* C6 amended: for a non-empty code get_language_name never fails and never
\* returns an empty string: it returns the catalog name of a known
\* 2-character code, else the title-cased backend name, else the code itself
\* in title case.
C6_LanguageName ==
    (Returned("get_language_name") /\ Truthy(helper.arg)) =>
        /\ helper.exc = "none"
        /\ helper.ret # << >>
        /\ CatalogHit => helper.ret = NameIn(PycountryLanguages, lower(helper.arg))
        /\ (~CatalogHit /\ InCatalog(LANGUAGES, helper.arg))
              => helper.ret = title(NameIn(LANGUAGES, helper.arg))
        /\ (~CatalogHit /\ ~InCatalog(LANGUAGES, helper.arg))
              => /\ Len(helper.ret) = Len(helper.arg)
                 /\ lower(helper.ret) = lower(helper.arg)
                 /\ \A i \in 1..Len(helper.ret) :
                       IsCased(helper.ret[i]) =>
                          (IsUpperChar(helper.ret[i])
                              <=> (i = 1 \/ ~IsCased(helper.ret[i - 1])))

\* C6 witness: the unknown code "in" has come back as "In".
C6_Witness ==
    /\ Returned("get_language_name")
    /\ helper.arg = in
    /\ helper.ret = << "I", "n" >>

----------------------------------------------------------------------------
(* Properties of the button handlers.                                      *)

\* Empty, or whitespace only.
Blank(text) == \A i \in 1..Len(text) : text[i] = " "

ParagraphButtons ==
    { "Detect language", "Translate to English", "Generate Word Cloud",
      "Translate & Read Aloud" }

OnlyInfoShown ==
    calls = << >> /\ Len(shown) = 1 /\ shown[1].kind = "info" /\ ~escaped

\* C4: in each of the five actions a blank (empty or whitespace-only)
\* paragraph, or word for spelling, has no library called and only an
\* informational message shown; detect never receives a blank text.
C4_BlankInputGuard ==
    /\ (button \in ParagraphButtons /\ Blank(paragraph)) => OnlyInfoShown
    /\ (button = "Spell Word Aloud" /\ Blank(word_to_spell)) => OnlyInfoShown
    /\ \A i \in 1..Len(calls) : calls[i].fn = "detect" => ~Blank(calls[i].text)

\* C4 witness: "Detect language" has run on a whitespace-only paragraph.
C4_Witness ==
    /\ button = "Detect language"
    /\ paragraph = << " ", " " >>
    /\ shown[1].msg = "Type or paste a paragraph first."

HasCall(fn) == \E i \in 1..Len(calls) : calls[i].fn = fn

HasError == \E i \in 1..Len(shown) : shown[i].kind = "error"

\* C9: "Generate Word Cloud" on a non-blank paragraph always calls the cloud
\* builder; when detection or the translation to English failed it is called
\* on the original paragraph; an error is shown exactly when the builder
\* itself failed, and no exception leaves the handler.
C9_CloudBestEffort ==
    (button = "Generate Word Cloud" /\ ~Blank(paragraph)) =>
        /\ calls[1].fn = "detect"
        /\ calls[Len(calls)].fn = "generate_wordcloud_figure"
        /\ (\E i \in 1..Len(calls) :
               calls[i].fn \in { "detect", "translate" } /\ calls[i].exc # "none")
              => calls[Len(calls)].text = paragraph
        /\ HasError <=> calls[Len(calls)].exc # "none"
        /\ \A i \in 1..Len(shown) : shown[i].msg # "Translation failed"
        /\ ~escaped

\* C9 witness: the translation failed and the cloud was drawn of the paragraph.
C9_Witness ==
    /\ button = "Generate Word Cloud"
    /\ Len(calls) = 3
    /\ calls[2].fn = "translate" /\ calls[2].exc = "Exception"
    /\ calls[3].text = paragraph
    /\ shown[1].kind = "pyplot"

\* C10: "Translate to English" on a non-blank paragraph calls the translator
\* if and only if detection returned a code other than "en"; when detection
\* failed it shows no error, reports the text as already English and echoes
\* the paragraph.
C10_TranslateIffDetectedForeign ==
    (button = "Translate to English" /\ ~Blank(paragraph)) =>
        /\ calls[1].fn = "detect"
        /\ HasCall("translate") <=> (calls[1].exc = "none" /\ calls[1].ret # en)
        /\ calls[1].exc # "none" =>
              /\ ~HasError
              /\ shown = << Show("info", "Text appears to already be English.", << >>),
                            Show("write", "", paragraph) >>

\* C10 witness: detection failed and the paragraph was echoed as English.
C10_Witness ==
    /\ button = "Translate to English"
    /\ paragraph = << "b", " " >>
    /\ calls[1].exc = "LangDetectException"
    /\ Len(calls) = 1
    /\ shown[2].text = paragraph

----------------------------------------------------------------------------
(* Properties of the read-aloud panel (checked under SpecReadAloud).       *)

\* The translate calls of the last handler, in order.
TranslateCalls == SelectSeq(calls, LAMBDA c : c.fn = "translate")

\* "**{name}** ({code})"
Heading(name) == name \o << " ", "(" >> \o display_map[name] \o << ")" >>

\* The i-th selected language was translated, its text rendered under its
\* heading, and its synthesis attempted.
RenderedAndSpoken(i) ==
    /\ \E j \in 1..(Len(shown) - 1) :
          /\ shown[j] = Show("markdown", "", Heading(target_languages[i]))
          /\ shown[j + 1] = Show("write", "", TranslateCalls[i].ret)
    /\ \E k \in 1..(Len(calls) - 1) :
          /\ calls[k] = TranslateCalls[i]
          /\ calls[k + 1].fn = "gTTS"
          /\ calls[k + 1].text = TranslateCalls[i].ret

\* Every selected language was attempted, in the order selected.
AllAttempted ==
    /\ Len(TranslateCalls) = Len(target_languages)
    /\ \A i \in 1..Len(target_languages) :
          /\ TranslateCalls[i].lang = display_map[target_languages[i]]
          /\ TranslateCalls[i].text = paragraph
    /\ ~escaped

\* C1 as stated: whatever fails for one language, every selected language is
\* attempted, and each one whose translation succeeds has its text rendered
\* and its audio synthesis attempted.
C1_AsStated ==
    (button = "Translate & Read Aloud" /\ ~Blank(paragraph)) =>
        /\ AllAttempted
        /\ \A i \in 1..Len(TranslateCalls) :
              TranslateCalls[i].exc = "none" => RenderedAndSpoken(i)

\* C1 amended: whatever fails for one language, every selected language is
\* attempted, and each one whose translation succeeds with a non-empty text
\* has its text rendered and its audio synthesis attempted; an empty
\* translation is neither rendered nor spoken.
C1_FailuresIsolated ==
    (button = "Translate & Read Aloud" /\ ~Blank(paragraph)) =>
        /\ AllAttempted
        /\ \A i \in 1..Len(TranslateCalls) :
              (TranslateCalls[i].exc = "none" /\ TranslateCalls[i].ret # << >>)
                 => RenderedAndSpoken(i)
        /\ Cardinality({ k \in 1..Len(calls) : calls[k].fn = "gTTS" })
              = Cardinality({ i \in 1..Len(TranslateCalls) :
                                 /\ TranslateCalls[i].exc = "none"
                                 /\ TranslateCalls[i].ret # << >> })

\* C1 witness: of three languages the first failed to translate, the second
\* failed to synthesize and the third was rendered and played.
C1_Witness ==
    /\ button = "Translate & Read Aloud"
    /\ Len(target_languages) = 3
    /\ Len(calls) = 5
    /\ calls[1].fn = "translate" /\ calls[1].exc = "Exception"
    /\ calls[3].fn = "gTTS" /\ calls[3].exc = "Exception"
    /\ calls[5].fn = "gTTS" /\ calls[5].exc = "none"
    /\ shown[Len(shown)].kind = "audio"

\* C8: after any sequence of toggles of "Select all languages" the default
\* selection is every catalog name, each once and in sorted order, when the
\* box is checked, and the single entry "English"
\* when it is not, so that checking and unchecking returns to ["English"].
C8_SelectAllRoundTrip ==
    /\ select_all =>
          /\ { default_selection[i] : i \in 1..Len(default_selection) }
                = { title(LANGUAGES[i][2]) : i \in 1..Len(LANGUAGES) }
          /\ \A i, j \in 1..Len(default_selection) :
                i < j => StrLess(default_selection[i], default_selection[j])
    /\ ~select_all => default_selection = << English >>

\* C8 witness: the box is checked and the whole catalog is selected.
C8_Witness ==
    /\ select_all
    /\ Len(default_selection) = 3
    /\ target_languages = default_selection
    /\ button = "Translate & Read Aloud"

----------------------------------------------------------------------------
(* Properties of the spelling panel (checked under SpecSpell).             *)

====
